---- MODULE Spec2Model ----
(***************************************************************************)
(* The package-migration generator of                                      *)
(* tools/generators/migrate-converged-pkg/index.ts as a state machine.     *)
(*                                                                         *)
(* One invocation of the generator validates the request (name/all/stats), *)
(* then prints statistics, or migrates every converged project of the      *)
(* workspace, or migrates the one named project; a migration is the fixed  *)
(* sequence of transform steps of runMigrationOnProject.  The state is the *)
(* file tree, the project registry (workspace.json), the module-level      *)
(* `templates` object, the user log, and the position of the invocation.   *)
(*                                                                         *)
(* Abstractions: a package name is the pair <<scope, package>> standing    *)
(* for "@scope/package" (scope "" for an unscoped name); a path is the     *)
(* sequence of its fragments; a file name is the sequence of its           *)
(* dot-separated parts; the text of a story file is a sequence of tokens,  *)
(* each the occurrence of a package name or other text; JSON objects are   *)
(* functions (key order is not modelled); an optional value is a sequence  *)
(* of length 0 (undefined / null) or 1.  formatFiles (prettier) only       *)
(* re-indents and is not visible at this level.                            *)
(***************************************************************************)
EXTENDS Integers, Sequences, FiniteSets, TLC

\* ------------------------------------------------------------- bounds

\* Longest story text, in tokens, that Init draws.
MaxContentLen == 2
\* Number of invocations of the generator on the same tree.
MaxRuns == 2

\* ------------------------------------------------------ generic helpers

None == <<>>
Some(v) == <<v>>

Range(s) == {s[i] : i \in DOMAIN s}

\* obj[k] = v
Put(f, k, v) == [x \in (DOMAIN f) \cup {k} |-> IF x = k THEN v ELSE f[x]]

\* delete obj[k]
Remove(f, k) == [x \in (DOMAIN f) \ {k} |-> f[x]]

\* Object.assign(f, g)
Assign(f, g) == [x \in (DOMAIN f) \cup (DOMAIN g) |-> IF x \in DOMAIN g THEN g[x] ELSE f[x]]

\* joinPathFragments(root, fragment)
joinPathFragments(root, fragment) == Append(root, fragment)

RECURSIVE uniqueArrayFrom(_, _)
uniqueArrayFrom(value, seen) ==
  IF value = <<>> THEN <<>>
  ELSE IF Head(value) \in seen THEN uniqueArrayFrom(Tail(value), seen)
  ELSE <<Head(value)>> \o uniqueArrayFrom(Tail(value), seen \cup {Head(value)})

\* A variant of uniqueArray that keeps the duplicates.
arrayWithDuplicates(value) == value

\* Array.from(new Set(value)): the first occurrence of each element, in order.
uniqueArray(value) == uniqueArrayFrom(value, {})

\* All sequences over S of length at most n.
RECURSIVE SeqsUpTo(_, _)
SeqsUpTo(S, n) ==
  IF n = 0 THEN {<<>>}
  ELSE LET shorter == SeqsUpTo(S, n - 1)
       IN shorter \cup {Append(s, x) : s \in shorter, x \in S}

\* ------------------------------------------------------ names and paths

npmScope == "proj"

\* A falsy name: undefined, or the empty string.
NoName == <<"", "">>
NameA == <<"proj", "react-a">>
NameB == <<"proj", "react-b">>
NameC == <<"proj", "react-c">>
NameExamples == <<npmScope, "react-examples">>
\* A package of the workspace scope that lives outside the workspace.
NameIcons == <<"proj", "react-icons">>
\* A third-party package.
NameReact == <<"", "react">>

\* The projects with a directory in the tree.
Projects == {NameA, NameB, NameC, NameExamples}

RootOf(name) == <<"packages", name[2]>>

\* options.name.replace(`@${npmScope}/`, '')
\* (the name without the workspace scope, again as a name)
normalizedPkgName(name) == IF name[1] = npmScope THEN <<"", name[2]>> ELSE name

\* pkgName.startsWith(`@${npmScope}`)
isInternalDependency(pkgName) == pkgName[1] = npmScope

\* ------------------------------------------------------------ templates

\* templates.tsconfig.compilerOptions.types as the module is loaded
TemplateTypes == <<"jest", "custom-global", "inline-style-expand-shorthand", "storybook__addons">>

SnapshotTriggers == {<<npmScope, "react-make-styles">>}

LegacyScripts == {"update-snapshots", "start-test", "test:watch"}

NewScripts(pkgName) ==
  [k \in {"docs", "build:local", "storybook", "start", "test"} |->
     CASE k = "docs" -> <<"api-extractor run --config=config/api-extractor.local.json --local">>
       [] k = "build:local" -> <<"tsc && normalize-import --output dist/", pkgName[2], "/src && yarn docs">>
       [] k = "storybook" -> <<"start-storybook">>
       [] k = "start" -> <<"yarn storybook">>
       [] OTHER -> <<"jest">>]

\* The token './index' and a token of unrelated text.
IndexToken == <<".", "index">>
TextToken == <<"", "text">>

\* ------------------------------------------------------------ file tree

\* package.json versions, as sequences of characters
V900 == <<"9", ".", "0", ".", "0">>
V827 == <<"8", ".", "2", ".", "7">>
V9010 == <<"9", "0", ".", "1", ".", "0">>

\* Story files of the examples project, as paths below
\* <examples root>/src/<normalized package name>.
StoryTsx == <<"Button", "stories", "tsx">>
StoryMdx == <<"Docs", "stories", "mdx">>
HelperTs == <<"utils", "ts">>
PathStory == <<StoryTsx>>
PathNested == <<<<"sub">>, StoryTsx>>
PathMdx == <<StoryMdx>>
PathHelper == <<HelperTs>>

Source(text) == [text |-> text, exports |-> <<>>]

DirAbsent == [exists |-> FALSE, files |-> <<>>]
Dir(files) == [exists |-> TRUE, files |-> files]

\* The texts Init draws for the story file of a package.
Contents(name) == {Source(t) : t \in SeqsUpTo({name, TextToken}, MaxContentLen)}

DefaultDir(name) == Dir(PathStory :> Source(<<name, TextToken>>))

\* The states of <examples root>/src/<package> Init draws.
Layouts(name) ==
  {DirAbsent, Dir(<<>>), Dir(PathHelper :> Source(<<TextToken>>))}
    \cup {Dir(PathStory :> c) : c \in Contents(name)}
    \cup {Dir((PathStory :> Source(<<name>>)) @@ (PathHelper :> Source(<<TextToken>>))),
          Dir((PathStory :> Source(<<name>>)) @@ (PathNested :> Source(<<TextToken, name>>))),
          Dir((PathStory :> Source(<<name, name>>)) @@ (PathMdx :> Source(<<name>>)))}

OldScripts ==
  ("build" :> <<"just-scripts build">>) @@ ("test" :> <<"just-scripts test">>)
    @@ ("start-test" :> <<"just-scripts jest-watch">>)
    @@ ("update-snapshots" :> <<"just-scripts jest -u">>)

DefaultDeps == Some((NameB :> "^9.0.0") @@ (NameReact :> "^16.8.0"))

OnlyReact == Some(NameReact :> "^16.8.0")

DepMaps ==
  {None, DefaultDeps,
   Some((NameB :> "^9.0.0") @@ (NameIcons :> "^1.1.0") @@ (NameReact :> "^16.8.0")
          @@ (<<npmScope, "react-make-styles">> :> "^9.0.0"))}

DefaultExamplesDeps == Some((NameA :> "^9.0.0") @@ (NameB :> "^9.0.0") @@ (NameReact :> "^16.8.0"))

ExamplesDepMaps == {None, DefaultExamplesDeps, Some(NameReact :> "^16.8.0")}

TypeLists == {None, Some(<<"node">>), Some(<<"jest", "node", "node">>)}

OldAlias == <<"dist", "old", "index.d.ts">>

\* workspace.json records
Fresh(name) == [root |-> RootOf(name), sourceRoot |-> None, tags |-> None]
Migrated(name) ==
  [root |-> RootOf(name), sourceRoot |-> Some(joinPathFragments(RootOf(name), "src")),
   tags |-> Some(<<"vNext", "platform:web">>)]
TaggedOnly(name) == [root |-> RootOf(name), sourceRoot |-> None, tags |-> Some(<<"vNext">>)]
SourceRootOnly(name) ==
  [root |-> RootOf(name), sourceRoot |-> Some(joinPathFragments(RootOf(name), "src")),
   tags |-> Some(<<"platform:node">>)]
Records(name) == {Fresh(name), Migrated(name), TaggedOnly(name), SourceRootOnly(name)}

Roots == {RootOf(p) : p \in Projects}
NameOfRoot(root) == CHOOSE p \in Projects : RootOf(p) = root

\* The tree with, per project, the given manifest version, tsconfig types,
\* dependencies, scripts and examples directory.
MkTree(version, types, deps, scripts, dirs, jestSetup, basePaths) ==
  [pkg |-> [r \in Roots |->
              [version |-> version[NameOfRoot(r)],
               dependencies |-> deps[NameOfRoot(r)],
               scripts |-> scripts[NameOfRoot(r)]]],
   tsconfig |-> [r \in Roots |-> [fromTemplate |-> FALSE, types |-> types[NameOfRoot(r)]]],
   basePaths |-> basePaths,
   jestConfig |-> [r \in Roots |-> None],
   jestSetup |-> [r \in Roots |-> jestSetup],
   rootJest |-> {},
   storybook |-> [r \in Roots |-> "absent"],
   apiExtractor |-> [r \in Roots |-> "absent"],
   npmignore |-> [r \in Roots |-> "absent"],
   src |-> [r \in Roots |-> <<>>],
   examples |-> [n \in {normalizedPkgName(p) : p \in Projects} |->
                   dirs[CHOOSE p \in Projects : normalizedPkgName(p) = n]]]

\* ------------------------------------------------- helpers of the source

\* Boolean(schema[flag]) for the name
Truthy(name) == name # NoName

hasSchemaFlag(schema, flag) ==
  CASE flag = "name" -> Truthy(schema.name)
    [] flag = "all" -> schema.all
    [] OTHER -> schema.stats

\* A variant of isPackageConverged that looks at the first character only.
isPackageConvergedByFirstCharacter(t, project) ==
  LET version == t.pkg[project.root].version
  IN Len(version) >= 1 /\ version[1] = "9"

\* packageJson.version.startsWith('9.')
isPackageConverged(t, project) ==
  LET version == t.pkg[project.root].version
  IN Len(version) >= 2 /\ version[1] = "9" /\ version[2] = "."

\* A variant of isProjectMigrated that looks at the tags only.
isProjectMigratedByTag(project) ==
  /\ project.tags # None
  /\ "vNext" \in Range(project.tags[1])

\* project.sourceRoot != null && Boolean(project.tags?.includes('vNext'))
isProjectMigrated(project) ==
  /\ project.sourceRoot # None
  /\ project.tags # None
  /\ "vNext" \in Range(project.tags[1])

\* A variant of ModeConflict without the check of --stats against --all.
ModeConflictOfNameOnly(schema) ==
  IF Truthy(schema.name) /\ schema.stats THEN "--name and --stats are mutually exclusive"
  ELSE IF Truthy(schema.name) /\ schema.all THEN "--name and --all are mutually exclusive"
  ELSE ""

\* The three mutual-exclusion checks of validateSchema; "" when none throws.
ModeConflict(schema) ==
  IF Truthy(schema.name) /\ schema.stats THEN "--name and --stats are mutually exclusive"
  ELSE IF Truthy(schema.name) /\ schema.all THEN "--name and --all are mutually exclusive"
  ELSE IF schema.stats /\ schema.all THEN "--stats and --all are mutually exclusive"
  ELSE ""

shouldValidateNameInput(schema) == ~Truthy(schema.name) /\ ~(schema.all \/ schema.stats)

\* A variant of NameCheck that does not look at the version of the project.
NameCheckWithoutVersion(t, reg, schema) ==
  IF shouldValidateNameInput(schema) THEN "--name cannot be empty"
  ELSE IF ~Truthy(schema.name) THEN ""
  ELSE IF schema.name \notin DOMAIN reg THEN "Cannot find configuration for project"
  ELSE ""

\* The checks of validateSchema after the prompt; "" when none throws.
NameCheck(t, reg, schema) ==
  IF shouldValidateNameInput(schema) THEN "--name cannot be empty"
  ELSE IF ~Truthy(schema.name) THEN ""
  ELSE IF schema.name \notin DOMAIN reg THEN "Cannot find configuration for project"
  ELSE IF ~isPackageConverged(t, reg[schema.name]) THEN "is not converged package"
  ELSE ""

normalizeOptions(reg, name) ==
  [name |-> name, projectConfig |-> reg[name], normalizedPkgName |-> normalizedPkgName(name)]

NoOptions == [name |-> NoName, projectConfig |-> Fresh(NoName), normalizedPkgName |-> NoName]

\* The types updatedLocalTsConfig writes.
updatedTypes(newConfigTypes, oldConfigTypes) == uniqueArray(newConfigTypes \o oldConfigTypes)

\* The tree after updatedLocalTsConfig, and the template it leaves behind:
\* newConfig is a shallow copy of templates.tsconfig, so newConfig.compilerOptions
\* IS templates.tsconfig.compilerOptions and the assignment of types lands there.
updatedLocalTsConfig(t, options, tmplTypes) ==
  LET root == options.projectConfig.root
      oldConfig == t.tsconfig[root]
      oldConfigTypes == IF oldConfig.types = None THEN <<>> ELSE oldConfig.types[1]
      types == updatedTypes(tmplTypes, oldConfigTypes)
  IN [tree |-> [t EXCEPT !.tsconfig[root] = [fromTemplate |-> TRUE, types |-> Some(types)]],
      templateTypes |-> types]

\* `${root}/src/index.ts`
IndexOf(root) == root \o <<"src", "index.ts">>

\* `${allProjects.get(pkgName)?.root}/src/index.ts`
AliasOf(reg, pkgName) ==
  IF pkgName \in DOMAIN reg THEN IndexOf(reg[pkgName].root) ELSE IndexOf(<<"undefined">>)

depsThatNeedToBecomeAliases(t, reg, options) ==
  LET pkgJson == t.pkg[options.projectConfig.root]
      deps == IF pkgJson.dependencies = None THEN {} ELSE DOMAIN pkgJson.dependencies[1]
  IN [pkgName \in {d \in deps : isInternalDependency(d)} |-> AliasOf(reg, pkgName)]

updatedBaseTsConfig(t, reg, options) ==
  [t EXCEPT !.basePaths =
     Assign(Put(@, options.name, IndexOf(options.projectConfig.root)),
            depsThatNeedToBecomeAliases(t, reg, options))]

updateLocalJestConfig(t, options) ==
  LET root == options.projectConfig.root
      pkgJson == t.pkg[root]
      deps == IF pkgJson.dependencies = None THEN {} ELSE DOMAIN pkgJson.dependencies[1]
      config == [pkgName |-> options.normalizedPkgName,
                 addSnapshotSerializers |-> (deps \cap SnapshotTriggers # {}),
                 testSetupFilePath |-> <<".", "config", "tests.js">>]
  IN [t EXCEPT !.jestConfig[root] = Some(config),
               !.jestSetup[root] = IF @ = "absent" THEN "template" ELSE @]

\* updateJestConfig(tree, { project }) of tools/utils: registers the project in
\* the root jest config.
updateRootJestConfig(t, options) == [t EXCEPT !.rootJest = @ \cup {options.name}]

setupStorybook(t, options) == [t EXCEPT !.storybook[options.projectConfig.root] = "template"]

\* treePath.includes('.stories.'): some segment has the part "stories" with a
\* dot on either side.
includesStoriesMarker(treePath) ==
  \E i \in DOMAIN treePath : \E j \in 2..(Len(treePath[i]) - 1) : treePath[i][j] = "stories"

\* fileName.replace(/\.stories\.tsx?$/, '')
componentName(fileName) ==
  LET n == Len(fileName)
  IN IF n >= 3 /\ fileName[n - 1] = "stories" /\ fileName[n] \in {"ts", "tsx"}
     THEN SubSeq(fileName, 1, n - 2)
     ELSE fileName

\* contents.replace(options.name, './index'): a string pattern replaces the
\* first occurrence only.
RECURSIVE replaceName(_, _)
replaceName(text, name) ==
  IF text = <<>> THEN <<>>
  ELSE IF Head(text) = name THEN <<IndexToken>> \o Tail(text)
  ELSE <<Head(text)>> \o replaceName(Tail(text), name)

\* The content written for a story: the import rewritten, the default export appended.
relocated(contents, name, fileName) ==
  [text |-> replaceName(contents.text, name),
   exports |-> Append(contents.exports, componentName(fileName))]

\* if (contents): an absent or empty file is falsy
isFalsy(contents) == contents.text = <<>> /\ contents.exports = <<>>

\* storyPaths.forEach(...): the destination directory after the stories are
\* written one by one; a falsy content throws and leaves the earlier writes.
RECURSIVE writeStories(_, _, _, _)
writeStories(src, files, storyPaths, name) ==
  IF storyPaths = <<>> THEN [src |-> src, thrown |-> FALSE, writes |-> 0]
  ELSE LET originPath == Head(storyPaths)
           fileName == originPath[Len(originPath)]
           contents == files[originPath]
       IN IF isFalsy(contents)
          THEN [src |-> src, thrown |-> TRUE, writes |-> 0]
          ELSE LET rest == writeStories(Put(src, fileName, relocated(contents, name, fileName)),
                                        files, Tail(storyPaths), name)
               IN [rest EXCEPT !.writes = @ + 1]

\* The '.stories.' paths visitNotIgnoredFiles reports below the package's
\* directory of the examples project.
storyPathsOf(t, options) ==
  {treePath \in DOMAIN t.examples[options.normalizedPkgName].files : includesStoriesMarker(treePath)}

\* All orders in which a set of paths can be visited.
RECURSIVE Orders(_)
Orders(S) ==
  IF S = {} THEN {<<>>}
  ELSE UNION {{<<x>> \o o : o \in Orders(S \ {x})} : x \in S}

moveStorybookFromReactExamples(t, options, storyPaths) ==
  LET root == options.projectConfig.root
      out == writeStories(t.src[root], t.examples[options.normalizedPkgName].files,
                          storyPaths, options.name)
  IN [tree |-> [t EXCEPT !.src[root] = out.src], thrown |-> out.thrown, writes |-> out.writes]

\* A variant of removeMigratedPackageFromReactExamples that deletes the
\* directory and leaves the manifest of the examples project alone.
removeDirectoryOnly(t, reg, options) ==
  IF ~t.examples[options.normalizedPkgName].exists THEN t
  ELSE [t EXCEPT !.examples[options.normalizedPkgName] = DirAbsent]

removeMigratedPackageFromReactExamples(t, reg, options) ==
  LET reactExamplesConfig == reg[NameExamples]
      json == t.pkg[reactExamplesConfig.root]
  IN IF ~t.examples[options.normalizedPkgName].exists THEN t
     ELSE [t EXCEPT !.examples[options.normalizedPkgName] = DirAbsent,
                    !.pkg[reactExamplesConfig.root].dependencies =
                       IF @ = None THEN None ELSE Some(Remove(@[1], options.name))]

RECURSIVE RemoveAll(_, _)
RemoveAll(f, keys) ==
  IF keys = {} THEN f
  ELSE LET k == CHOOSE x \in keys : TRUE IN RemoveAll(Remove(f, k), keys \ {k})

\* A variant of updateNpmScripts that leaves the legacy scripts in place.
updateNpmScriptsKeepingLegacy(t, options) ==
  [t EXCEPT !.pkg[options.projectConfig.root].scripts =
     Assign(@, NewScripts(options.normalizedPkgName))]

updateNpmScripts(t, options) ==
  [t EXCEPT !.pkg[options.projectConfig.root].scripts =
     Assign(RemoveAll(@, LegacyScripts), NewScripts(options.normalizedPkgName))]

updateApiExtractorForLocalBuilds(t, options) ==
  [t EXCEPT !.apiExtractor[options.projectConfig.root] = "template"]

setupNpmConfig(t, options) == [t EXCEPT !.npmignore[options.projectConfig.root] = "template"]

\* A variant of updateNxWorkspace that appends the two tags without uniqueArray.
updateNxWorkspaceAppendingTags(reg, options) ==
  [reg EXCEPT ![options.name] =
     [options.projectConfig EXCEPT
        !.sourceRoot = Some(joinPathFragments(options.projectConfig.root, "src")),
        !.tags = Some((IF @ = None THEN <<>> ELSE @[1]) \o <<"vNext", "platform:web">>)]]

updateNxWorkspace(reg, options) ==
  [reg EXCEPT ![options.name] =
     [options.projectConfig EXCEPT
        !.sourceRoot = Some(joinPathFragments(options.projectConfig.root, "src")),
        !.tags = Some(uniqueArray((IF @ = None THEN <<>> ELSE @[1]) \o <<"vNext", "platform:web">>))]]

\* The two lists printStats reports, in registry order.
RECURSIVE statsOf(_, _, _)
statsOf(t, reg, names) ==
  IF names = <<>> THEN [migrated |-> <<>>, notMigrated |-> <<>>]
  ELSE LET projectName == Head(names)
           rest == statsOf(t, reg, Tail(names))
       IN IF ~isPackageConverged(t, reg[projectName]) THEN rest
          ELSE IF isProjectMigrated(reg[projectName])
          THEN [rest EXCEPT !.migrated = <<projectName>> \o @]
          ELSE [rest EXCEPT !.notMigrated = <<projectName>> \o @]

\* ---------------------------------------------------------------- state

VARIABLES
  schema,         \* the request: [name, all, stats]
  pc,             \* position of the invocation
  error,          \* message of the error thrown, "" if none
  tree,           \* the file tree
  registry,       \* workspace.json: project name -> configuration
  order,          \* iteration order of getProjects(tree)
  templateTypes,  \* templates.tsconfig.compilerOptions.types (module state)
  userLog,        \* entries pushed to userLog in this invocation
  options,        \* NormalizedSchema of the project being migrated
  idx,            \* position of runBatchMigration's forEach, 0 outside it
  report,         \* what printStats printed
  executed,       \* the modes the default function ran in this invocation
  steps,          \* per project, the transform steps run in this invocation
  nWrites,        \* tree.write / tree.delete / updateJson / writeJson calls
  regWrites,      \* per project, updateProjectConfiguration calls
  run,            \* number of the invocation
  tree0,          \* the tree when this invocation started
  registry0       \* the registry when this invocation started

vars == <<schema, pc, error, tree, registry, order, templateTypes, userLog, options, idx,
          report, executed, steps, nWrites, regWrites, run, tree0, registry0>>

\* ------------------------------------------------------- initial states

Schemas == [name : {NoName, NameA, NameB, NameExamples, NameIcons}, all : BOOLEAN, stats : BOOLEAN]

\* What the operator may type at the prompt.
PromptAnswers == {NoName, NameA, NameB, NameIcons}

\* The projects workspace.json registers, but for the statistics worlds.
Registered == {NameA, NameB, NameExamples}

DefaultOrder == <<NameA, NameB, NameExamples>>

DefaultDepsOf == [p \in Projects |->
  IF p = NameExamples THEN DefaultExamplesDeps ELSE IF p = NameA THEN DefaultDeps ELSE OnlyReact]

DefaultDirs == [p \in Projects |-> IF p = NameExamples THEN DirAbsent ELSE DefaultDir(p)]

AllFresh == [p \in Registered |-> Fresh(p)]

NoTypes == [p \in Projects |-> None]

AllOldScripts == [p \in Projects |-> OldScripts]

World(version, recs, ord, types, deps, scripts, dirs, jestSetup, basePaths) ==
  [tree |-> MkTree(version, types, deps, scripts, dirs, jestSetup, basePaths),
   registry |-> recs, order |-> ord]

\* The manifest versions of the registered projects (the fourth project,
\* registered in the statistics worlds only, is at 9.0.0).
VersionMaps ==
  {[p \in Projects |-> IF p \in Registered THEN v[p] ELSE V900] : v \in [Registered -> {V900, V827}]}
    \cup {[p \in Projects |-> IF p = NameExamples THEN V827 ELSE V9010]}

\* Requests that fail validation or prompt read the manifest versions only.
WorldsOfVersions ==
  {World(v, AllFresh, DefaultOrder, NoTypes, DefaultDepsOf, AllOldScripts, DefaultDirs, "absent", <<>>) :
     v \in VersionMaps}

\* printStats reads the versions and the registry records.
WorldsOfStats ==
  {World([v EXCEPT ![NameC] = vc],
         [p \in Projects |-> IF p = NameA THEN ra ELSE IF p = NameB THEN rb
                             ELSE IF p = NameC THEN rc ELSE Fresh(NameExamples)],
         ord, NoTypes, DefaultDepsOf, AllOldScripts, DefaultDirs, "absent", <<>>) :
     v \in VersionMaps, vc \in {V900, V827}, ra \in Records(NameA), rb \in Records(NameB),
     rc \in {Fresh(NameC), Migrated(NameC)},
     ord \in {<<NameA, NameB, NameC, NameExamples>>, <<NameExamples, NameC, NameB, NameA>>}}

\* The examples directories of the first project drawn for a batch run.
BatchLayouts ==
  {DirAbsent, Dir(PathHelper :> Source(<<TextToken>>)), DefaultDir(NameA), Dir(PathStory :> Source(<<>>))}

WorldsOfBatch ==
  {World(v, AllFresh, ord,
         [p \in Projects |-> IF p = NameA THEN ta ELSE IF p = NameB THEN tb ELSE None],
         DefaultDepsOf, AllOldScripts, [DefaultDirs EXCEPT ![NameA] = da], "absent", <<>>) :
     v \in VersionMaps, ord \in Orders(Registered),
     ta \in TypeLists, tb \in {None, Some(<<"b-types">>)}, da \in BatchLayouts}

\* The state of the rest of the tree: as generated once, or bare.
Profiles ==
  {[scripts |-> OldScripts, jestSetup |-> "old", basePaths |-> (NameB :> OldAlias) @@ (NameReact :> OldAlias)],
   [scripts |-> ("test:watch" :> <<"just-scripts jest-watch">>), jestSetup |-> "absent", basePaths |-> <<>>]}

\* A single-project run reads everything of the named project.
WorldsOfProject(name) ==
  {World([p \in Projects |-> IF p = name THEN V900 ELSE V827],
         [AllFresh EXCEPT ![name] = r], DefaultOrder,
         [NoTypes EXCEPT ![name] = t],
         [DefaultDepsOf EXCEPT ![name] = d, ![NameExamples] = x],
         [p \in Projects |-> f.scripts],
         [DefaultDirs EXCEPT ![name] = l], f.jestSetup, f.basePaths) :
     r \in {Fresh(name), Migrated(name), TaggedOnly(name)}, t \in TypeLists, d \in DepMaps,
     x \in ExamplesDepMaps, l \in Layouts(name), f \in Profiles}

WorldsFor(s) ==
  IF ModeConflict(s) # "" \/ shouldValidateNameInput(s) \/ s.name = NameIcons
  THEN WorldsOfVersions
  ELSE IF s.stats THEN WorldsOfStats
  ELSE IF s.all THEN WorldsOfBatch
  ELSE IF s.name = NameA THEN WorldsOfProject(NameA) \cup WorldsOfVersions
  ELSE WorldsOfVersions

NoReport == [printed |-> FALSE, migrated |-> <<>>, notMigrated |-> <<>>]

Init ==
  \E s \in Schemas : \E w \in WorldsFor(s) :
    /\ schema = s
    /\ pc = "validate"
    /\ error = ""
    /\ tree = w.tree
    /\ registry = w.registry
    /\ order = w.order
    /\ templateTypes = TemplateTypes
    /\ userLog = <<>>
    /\ options = NoOptions
    /\ idx = 0
    /\ report = NoReport
    /\ executed = {}
    /\ steps = [p \in Projects |-> <<>>]
    /\ nWrites = 0
    /\ regWrites = [p \in Projects |-> 0]
    /\ run = 1
    /\ tree0 = w.tree
    /\ registry0 = w.registry

\* -------------------------------------------------------------- actions

\* A variant of StepOrder with the api-extractor configs written before the
\* npm scripts.
StepOrderConfigFirst ==
  <<"updatedLocalTsConfig", "updatedBaseTsConfig", "updateLocalJestConfig", "updateRootJestConfig",
    "setupStorybook", "moveStorybookFromReactExamples", "removeMigratedPackageFromReactExamples",
    "updateApiExtractorForLocalBuilds", "updateNpmScripts", "setupNpmConfig", "updateNxWorkspace">>

\* The transform steps in the order runMigrationOnProject calls them.
StepOrder ==
  <<"updatedLocalTsConfig", "updatedBaseTsConfig", "updateLocalJestConfig", "updateRootJestConfig",
    "setupStorybook", "moveStorybookFromReactExamples", "removeMigratedPackageFromReactExamples",
    "updateNpmScripts", "updateApiExtractorForLocalBuilds", "setupNpmConfig", "updateNxWorkspace">>

\* The step that follows `step` in runMigrationOnProject.
NextStep(step) ==
  LET i == CHOOSE k \in DOMAIN StepOrder : StepOrder[k] = step
  IN StepOrder[i + 1]

Log(type, message, subject) == [type |-> type, message |-> message, subject |-> subject]

\* A variant of skipEntry that logs the skip as a warning.
skipEntryAsWarning(projectName) ==
  Log("warn", "is not converged package. Skipping migration...", projectName)

\* The entry runBatchMigration pushes for a project that is not converged.
skipEntry(projectName) ==
  Log("error", "is not converged package. Skipping migration...", projectName)

\* A validation error is thrown: the invocation ends.
Throw(message) ==
  /\ pc' = "aborted"
  /\ error' = message

\* validateSchema up to its first await, and to its end when nothing is prompted.
ValidateSchema ==
  /\ pc = "validate"
  /\ \E promptsEnabled \in BOOLEAN :
       IF ModeConflict(schema) # "" THEN Throw(ModeConflict(schema))
       ELSE IF promptsEnabled /\ shouldValidateNameInput(schema)
       THEN pc' = "prompt" /\ error' = error
       ELSE IF NameCheck(tree, registry, schema) # ""
       THEN Throw(NameCheck(tree, registry, schema))
       ELSE pc' = "dispatch" /\ error' = error
  /\ UNCHANGED <<schema, tree, registry, order, templateTypes, userLog, options, idx, report,
                 executed, steps, nWrites, regWrites, run, tree0, registry0>>

\* The operator answers triggerDynamicPrompts, and validateSchema runs to its end.
TriggerDynamicPrompts ==
  /\ pc = "prompt"
  /\ \E answer \in PromptAnswers :
       /\ schema' = [schema EXCEPT !.name = answer]
       /\ IF NameCheck(tree, registry, schema') # ""
          THEN Throw(NameCheck(tree, registry, schema'))
          ELSE pc' = "dispatch" /\ error' = error
  /\ UNCHANGED <<tree, registry, order, templateTypes, userLog, options, idx, report,
                 executed, steps, nWrites, regWrites, run, tree0, registry0>>

\* if (hasSchemaFlag(validatedSchema, 'stats')) { printStats(...); return }
PrintStats ==
  /\ pc = "dispatch"
  /\ hasSchemaFlag(schema, "stats")
  /\ report' = [printed |-> TRUE,
                migrated |-> statsOf(tree, registry, order).migrated,
                notMigrated |-> statsOf(tree, registry, order).notMigrated]
  /\ executed' = executed \cup {"stats"}
  /\ pc' = "done"
  /\ UNCHANGED <<schema, error, tree, registry, order, templateTypes, userLog, options, idx,
                 steps, nWrites, regWrites, run, tree0, registry0>>

\* if (hasSchemaFlag(validatedSchema, 'all')) runBatchMigration(...): the
\* forEach starts; without the flag the function goes on to the name.
Dispatch ==
  /\ pc = "dispatch"
  /\ ~hasSchemaFlag(schema, "stats")
  /\ IF hasSchemaFlag(schema, "all")
     THEN pc' = "batch" /\ idx' = 1 /\ executed' = executed \cup {"all"}
     ELSE pc' = "single" /\ idx' = idx /\ executed' = executed
  /\ UNCHANGED <<schema, error, tree, registry, order, templateTypes, userLog, options, report,
                 steps, nWrites, regWrites, run, tree0, registry0>>

\* One turn of the forEach of runBatchMigration: a project that is not
\* converged is logged and skipped, a converged one starts its migration.
BatchVisit ==
  /\ pc = "batch"
  /\ idx <= Len(order)
  /\ LET projectName == order[idx]
     IN IF ~isPackageConverged(tree, registry[projectName])
        THEN /\ userLog' = Append(userLog, skipEntry(projectName))
             /\ idx' = idx + 1
             /\ UNCHANGED <<pc, options>>
        ELSE /\ options' = normalizeOptions(registry, projectName)
             /\ pc' = StepOrder[1]
             /\ UNCHANGED <<userLog, idx>>
  /\ UNCHANGED <<schema, error, tree, registry, order, templateTypes, report, executed, steps,
                 nWrites, regWrites, run, tree0, registry0>>

\* The forEach is over.
BatchEnd ==
  /\ pc = "batch"
  /\ idx > Len(order)
  /\ pc' = "single"
  /\ idx' = 0
  /\ UNCHANGED <<schema, error, tree, registry, order, templateTypes, userLog, options, report,
                 executed, steps, nWrites, regWrites, run, tree0, registry0>>

\* if (hasSchemaFlag(validatedSchema, 'name')) runMigrationOnProject(...)
RunSingle ==
  /\ pc = "single"
  /\ IF hasSchemaFlag(schema, "name")
     THEN /\ options' = normalizeOptions(registry, schema.name)
          /\ executed' = executed \cup {"name"}
          /\ pc' = StepOrder[1]
     ELSE /\ pc' = "format"
          /\ UNCHANGED <<options, executed>>
  /\ UNCHANGED <<schema, error, tree, registry, order, templateTypes, userLog, idx, report,
                 steps, nWrites, regWrites, run, tree0, registry0>>

\* What every transform step does besides its own effect: it is recorded,
\* and the next step, the next project or formatFiles follows.
StepDone(step, writes) ==
  /\ steps' = [steps EXCEPT ![options.name] = Append(@, step)]
  /\ nWrites' = nWrites + writes
  /\ IF step # StepOrder[Len(StepOrder)]
     THEN pc' = NextStep(step) /\ idx' = idx
     ELSE IF idx > 0 THEN pc' = "batch" /\ idx' = idx + 1
     ELSE pc' = "format" /\ idx' = idx
  /\ UNCHANGED <<schema, order, options, report, executed, run, tree0, registry0>>

UpdatedLocalTsConfig ==
  /\ pc = "updatedLocalTsConfig"
  /\ LET out == updatedLocalTsConfig(tree, options, templateTypes)
     IN tree' = out.tree /\ templateTypes' = out.templateTypes
  /\ StepDone("updatedLocalTsConfig", 1)
  /\ UNCHANGED <<error, registry, userLog, regWrites>>

UpdatedBaseTsConfig ==
  /\ pc = "updatedBaseTsConfig"
  /\ tree' = updatedBaseTsConfig(tree, registry, options)
  /\ StepDone("updatedBaseTsConfig", 1)
  /\ UNCHANGED <<error, registry, templateTypes, userLog, regWrites>>

UpdateLocalJestConfig ==
  /\ pc = "updateLocalJestConfig"
  /\ tree' = updateLocalJestConfig(tree, options)
  /\ StepDone("updateLocalJestConfig",
              IF tree.jestSetup[options.projectConfig.root] = "absent" THEN 2 ELSE 1)
  /\ UNCHANGED <<error, registry, templateTypes, userLog, regWrites>>

UpdateRootJestConfig ==
  /\ pc = "updateRootJestConfig"
  /\ tree' = updateRootJestConfig(tree, options)
  /\ StepDone("updateRootJestConfig", 1)
  /\ UNCHANGED <<error, registry, templateTypes, userLog, regWrites>>

SetupStorybook ==
  /\ pc = "setupStorybook"
  /\ tree' = setupStorybook(tree, options)
  /\ StepDone("setupStorybook", 3)
  /\ UNCHANGED <<error, registry, templateTypes, userLog, regWrites>>

\* The stories are visited in the order the tree lists them; a story without
\* content throws out of the whole invocation.
MoveStorybookFromReactExamples ==
  /\ pc = "moveStorybookFromReactExamples"
  /\ \E storyPaths \in Orders(storyPathsOf(tree, options)) :
       IF storyPaths = <<>>
       THEN /\ userLog' = Append(userLog, Log("warn", "No package stories found within react-examples. Skipping storybook stories migration...", options.name))
            /\ StepDone("moveStorybookFromReactExamples", 0)
            /\ UNCHANGED <<tree, error>>
       ELSE LET out == moveStorybookFromReactExamples(tree, options, storyPaths)
            IN /\ tree' = out.tree
               /\ IF out.thrown
                  THEN /\ pc' = "failed"
                       /\ error' = "Error moving story from react-examples"
                       /\ nWrites' = nWrites + out.writes
                       /\ UNCHANGED <<schema, order, options, report, executed, run, tree0,
                                      registry0, steps, idx>>
                  ELSE /\ StepDone("moveStorybookFromReactExamples", out.writes)
                       /\ error' = error
               /\ userLog' = userLog
  /\ UNCHANGED <<registry, templateTypes, regWrites>>

RemoveMigratedPackageFromReactExamples ==
  /\ pc = "removeMigratedPackageFromReactExamples"
  /\ tree' = removeMigratedPackageFromReactExamples(tree, registry, options)
  /\ IF tree.examples[options.normalizedPkgName].exists
     THEN /\ userLog' = userLog \o <<Log("warn", "NOTE: Deleting", options.name),
                                      Log("warn", "Please update your moved stories to follow standard storybook format", options.name)>>
          /\ StepDone("removeMigratedPackageFromReactExamples", 2)
     ELSE /\ userLog' = userLog
          /\ StepDone("removeMigratedPackageFromReactExamples", 0)
  /\ UNCHANGED <<error, registry, templateTypes, regWrites>>

UpdateNpmScripts ==
  /\ pc = "updateNpmScripts"
  /\ tree' = updateNpmScripts(tree, options)
  /\ StepDone("updateNpmScripts", 1)
  /\ UNCHANGED <<error, registry, templateTypes, userLog, regWrites>>

UpdateApiExtractorForLocalBuilds ==
  /\ pc = "updateApiExtractorForLocalBuilds"
  /\ tree' = updateApiExtractorForLocalBuilds(tree, options)
  /\ StepDone("updateApiExtractorForLocalBuilds", 2)
  /\ UNCHANGED <<error, registry, templateTypes, userLog, regWrites>>

SetupNpmConfig ==
  /\ pc = "setupNpmConfig"
  /\ tree' = setupNpmConfig(tree, options)
  /\ StepDone("setupNpmConfig", 1)
  /\ UNCHANGED <<error, registry, templateTypes, userLog, regWrites>>

UpdateNxWorkspace ==
  /\ pc = "updateNxWorkspace"
  /\ registry' = updateNxWorkspace(registry, options)
  /\ regWrites' = [regWrites EXCEPT ![options.name] = @ + 1]
  /\ StepDone("updateNxWorkspace", 0)
  /\ UNCHANGED <<error, tree, templateTypes, userLog>>

\* await formatFiles(tree); the callback that prints the user log is returned.
FormatFiles ==
  /\ pc = "format"
  /\ pc' = "done"
  /\ UNCHANGED <<schema, error, tree, registry, order, templateTypes, userLog, options, idx,
                 report, executed, steps, nWrites, regWrites, run, tree0, registry0>>

\* The generator is invoked once more with the same request on the tree the
\* migration left, in the same process (the templates as they are now) or in
\* a new one (the templates as the module defines them).
InvokeAgain ==
  /\ pc = "done"
  /\ run < MaxRuns
  /\ hasSchemaFlag(schema, "name")
  /\ \E types \in {templateTypes, TemplateTypes} : templateTypes' = types
  /\ pc' = "validate"
  /\ error' = ""
  /\ userLog' = <<>>
  /\ options' = NoOptions
  /\ idx' = 0
  /\ report' = NoReport
  /\ executed' = {}
  /\ steps' = [p \in Projects |-> <<>>]
  /\ nWrites' = 0
  /\ regWrites' = [p \in Projects |-> 0]
  /\ run' = run + 1
  /\ tree0' = tree
  /\ registry0' = registry
  /\ UNCHANGED <<schema, tree, registry, order>>

Migrate ==
  \/ UpdatedLocalTsConfig
  \/ UpdatedBaseTsConfig
  \/ UpdateLocalJestConfig
  \/ UpdateRootJestConfig
  \/ SetupStorybook
  \/ MoveStorybookFromReactExamples
  \/ RemoveMigratedPackageFromReactExamples
  \/ UpdateNpmScripts
  \/ UpdateApiExtractorForLocalBuilds
  \/ SetupNpmConfig
  \/ UpdateNxWorkspace

Next ==
  \/ ValidateSchema
  \/ TriggerDynamicPrompts
  \/ PrintStats
  \/ Dispatch
  \/ BatchVisit
  \/ BatchEnd
  \/ RunSingle
  \/ Migrate
  \/ FormatFiles
  \/ InvokeAgain

Spec == Init /\ [][Next]_vars

\* --------------------------------------------------------------- claims

\* The flags of a request that are truthy.
TruthyFlags(s) == {f \in {"name", "all", "stats"} : hasSchemaFlag(s, f)}

\* The version string begins with the two characters "9."
StartsWithNineDot(version) == Len(version) >= 2 /\ SubSeq(version, 1, 2) = <<"9", ".">>

VersionOf(p) == tree.pkg[registry[p].root].version

\* The request as it stands after the prompt cannot pass validateSchema.
FailsValidation ==
  \/ Cardinality(TruthyFlags(schema)) >= 2
  \/ TruthyFlags(schema) = {}
  \/ /\ Truthy(schema.name)
     /\ schema.name \in DOMAIN registry
     /\ ~StartsWithNineDot(VersionOf(schema.name))

\* Nothing was written in this invocation.
NothingWritten ==
  /\ tree = tree0
  /\ registry = registry0
  /\ nWrites = 0
  /\ \A p \in Projects : regWrites[p] = 0 /\ steps[p] = <<>>

\* C1: a request on which validateSchema fails (two or more modes, no name
\* with neither all nor stats, a named project that is not converged) aborts
\* the run with an error, and the tree and the registry are as at the start:
\* no step has run, nothing was written, created or deleted.
C1_ValidationFailureLeavesTreeUntouched ==
  /\ (pc \notin {"validate", "prompt"} /\ FailsValidation)
       => (pc = "aborted" /\ error # "" /\ NothingWritten)
  /\ pc = "aborted" => NothingWritten

C1_Witness ==
  /\ pc = "aborted"
  /\ error = "is not converged package"
  /\ schema.name = NameA
  /\ VersionOf(NameA) = V827

ConflictErrors ==
  [name_stats |-> "--name and --stats are mutually exclusive",
   name_all |-> "--name and --all are mutually exclusive",
   stats_all |-> "--stats and --all are mutually exclusive"]

\* C2: a request with more than one of name, all, stats truthy fails
\* validation with a conflicting-mode error that names two flags it sets; so
\* a run executes at most one of single-project migration, batch migration
\* and statistics, and only the one requested.
C2_ModesAreExclusive ==
  /\ (pc # "validate" /\ Cardinality(TruthyFlags(schema)) > 1)
       => /\ pc = "aborted"
          /\ error \in {ConflictErrors.name_stats, ConflictErrors.name_all, ConflictErrors.stats_all}
          /\ error = ConflictErrors.name_stats => {"name", "stats"} \subseteq TruthyFlags(schema)
          /\ error = ConflictErrors.name_all => {"name", "all"} \subseteq TruthyFlags(schema)
          /\ error = ConflictErrors.stats_all => {"stats", "all"} \subseteq TruthyFlags(schema)
  /\ Cardinality(executed) <= 1
  /\ executed \subseteq TruthyFlags(schema)

C2_Witness ==
  /\ pc = "aborted"
  /\ error = ConflictErrors.stats_all
  /\ TruthyFlags(schema) = {"stats", "all"}

BatchRan == "all" \in executed

\* No transform step has written anything for project p in this invocation.
Untouched(p) ==
  LET root == registry[p].root
      n == normalizedPkgName(p)
  IN /\ steps[p] = <<>>
     /\ regWrites[p] = 0
     /\ registry[p] = registry0[p]
     /\ tree.tsconfig[root] = tree0.tsconfig[root]
     /\ tree.jestConfig[root] = tree0.jestConfig[root]
     /\ tree.jestSetup[root] = tree0.jestSetup[root]
     /\ tree.storybook[root] = tree0.storybook[root]
     /\ tree.apiExtractor[root] = tree0.apiExtractor[root]
     /\ tree.npmignore[root] = tree0.npmignore[root]
     /\ tree.src[root] = tree0.src[root]
     /\ tree.pkg[root].scripts = tree0.pkg[root].scripts
     /\ tree.examples[n] = tree0.examples[n]
     /\ p \notin tree.rootJest

EntriesAbout(p) == {i \in DOMAIN userLog : userLog[i].subject = p}
EntriesOfType(type) == {i \in DOMAIN userLog : userLog[i].type = type}

\* A (9.0.0) and B (8.2.7) are registered and B is the only project that is
\* not converged.
OneSkippedProject ==
  /\ VersionOf(NameA) = V900
  /\ VersionOf(NameB) = V827
  /\ \A p \in DOMAIN registry \ {NameB} : StartsWithNineDot(VersionOf(p))

ConvergedProjects == {p \in DOMAIN registry : StartsWithNineDot(VersionOf(p))}
MigratedProjects ==
  {p \in ConvergedProjects :
     /\ registry[p].sourceRoot # None
     /\ registry[p].tags # None
     /\ \E i \in DOMAIN registry[p].tags[1] : registry[p].tags[1][i] = "vNext"}

\* C5: a statistics run writes nothing to the tree or the registry, reports
\* as migrated exactly the converged projects with a sourceRoot and the
\* sentinel tag, as not migrated exactly the other converged projects, each
\* once, and leaves every project that is not converged out of both lists.
C5_StatsIsAReadOnlyPartition ==
  "stats" \in executed
    => /\ pc = "done"
       /\ NothingWritten
       /\ report.printed
       /\ Range(report.migrated) = MigratedProjects
       /\ Range(report.notMigrated) = ConvergedProjects \ MigratedProjects
       /\ Len(report.migrated) = Cardinality(MigratedProjects)
       /\ Len(report.notMigrated) = Cardinality(ConvergedProjects \ MigratedProjects)

\* three converged projects, two of them migrated, and one that is not converged
C5_Witness ==
  /\ "stats" \in executed
  /\ Cardinality(DOMAIN registry) = 4
  /\ Len(report.migrated) = 2
  /\ Len(report.notMigrated) = 1
  /\ \E p \in DOMAIN registry : ~StartsWithNineDot(VersionOf(p)) /\ isProjectMigrated(registry[p])

\* C6: when a migration of a project has succeeded, running the migration of
\* the same project again leaves the tree and the registry exactly as the
\* first run left them; the second story relocation finds no examples
\* directory of the project and writes nothing.
C6_MigrationIsIdempotent ==
  run >= 2
    => /\ ~tree0.examples[normalizedPkgName(schema.name)].exists
       /\ tree.src = tree0.src
       /\ tree.examples = tree0.examples
       /\ pc = "done" => (tree = tree0 /\ registry = registry0)
       /\ pc \notin {"aborted", "failed"}

C6_Witness ==
  /\ run = 2
  /\ pc = "done"
  /\ steps[NameA] = StepOrder
  /\ tree0.src[RootOf(NameA)] # <<>>
  /\ tree0.tsconfig[RootOf(NameA)].types = Some(TemplateTypes \o <<"node">>)

\* The types of the local tsconfig of p.
TypesOf(t, p) ==
  LET types == t.tsconfig[registry[p].root].types
  IN IF types = None THEN <<>> ELSE types[1]

\* C7: after the TS config rewrite of a project, in a single-project run and
\* for every project of a batch run, the types of its local tsconfig are
\* exactly the fixed template types and the types its own tsconfig had
\* before, without duplicates: no type of a project migrated earlier in the
\* run appears.
C7_LocalTypesArePerProject ==
  \A p \in DOMAIN registry :
    "updatedLocalTsConfig" \in Range(steps[p])
      => /\ Range(TypesOf(tree, p)) = Range(TemplateTypes) \cup Range(TypesOf(tree0, p))
         /\ Len(TypesOf(tree, p)) = Cardinality(Range(TypesOf(tree, p)))

\* The internal dependencies the manifest of p declares.
InternalDependenciesOf(p) ==
  LET deps == tree0.pkg[registry[p].root].dependencies
  IN IF deps = None THEN {} ELSE {d \in DOMAIN deps[1] : d[1] = npmScope}

\* C8: after the migration of project P the paths of the root tsconfig are
\* the paths it held before, with P -> <P-root>/src/index.ts and, for every
\* internal dependency D of P, D -> <D-root>/src/index.ts with D-root the
\* registered root of D; every other entry is kept and no entry is added for
\* a dependency that is not internal.
C8_PathAliasesPointAtRegisteredRoots ==
  ("name" \in executed /\ "updatedBaseTsConfig" \in Range(steps[schema.name]))
    => LET P == schema.name
           internal == InternalDependenciesOf(P)
       IN /\ DOMAIN tree.basePaths = (DOMAIN tree0.basePaths) \cup {P} \cup internal
          /\ tree.basePaths[P] = registry[P].root \o <<"src", "index.ts">>
          /\ \A D \in internal \ {P} :
               /\ D \in DOMAIN registry
               /\ tree.basePaths[D] = registry[D].root \o <<"src", "index.ts">>
          /\ \A k \in (DOMAIN tree0.basePaths) \ ({P} \cup internal) :
               tree.basePaths[k] = tree0.basePaths[k]

\* C9: the content written for a relocated story has ./index in place of
\* every occurrence of the package name, however many there are: no
\* occurrence of the name is left in the destination.
C9_EveryImportIsRewritten ==
  ("name" \in executed /\ "moveStorybookFromReactExamples" \in Range(steps[schema.name]))
    => LET written == tree.src[registry[schema.name].root]
       IN \A fileName \in DOMAIN written :
            \A i \in DOMAIN written[fileName].text : written[fileName].text[i] # schema.name

\* The paths below the examples directory of p that carry the story marker.
StoriesFound(t, p) ==
  {treePath \in DOMAIN t.examples[normalizedPkgName(p)].files :
     \E i \in DOMAIN treePath : \E j \in 2..(Len(treePath[i]) - 1) : treePath[i][j] = "stories"}

ExamplesDependencies(t) == t.pkg[registry[NameExamples].root].dependencies

\* C10: after a single-project migration that found at least one story file
\* in the examples directory of the package, that directory is gone from the
\* tree and the package is no dependency of the examples manifest, whose
\* other dependencies are as before.
C10_ExamplesDirectoryAndDependencyRemoved ==
  ("name" \in executed /\ pc = "done" /\ StoriesFound(tree0, schema.name) # {})
    => /\ ~tree.examples[normalizedPkgName(schema.name)].exists
       /\ DOMAIN tree.examples[normalizedPkgName(schema.name)].files = {}
       /\ IF ExamplesDependencies(tree0) = None
          THEN ExamplesDependencies(tree) = None
          ELSE /\ ExamplesDependencies(tree) # None
               /\ DOMAIN ExamplesDependencies(tree)[1]
                    = (DOMAIN ExamplesDependencies(tree0)[1]) \ {schema.name}
               /\ \A d \in DOMAIN ExamplesDependencies(tree)[1] :
                    ExamplesDependencies(tree)[1][d] = ExamplesDependencies(tree0)[1][d]

C10_Witness ==
  /\ "name" \in executed
  /\ pc = "done"
  /\ run = 1
  /\ StoriesFound(tree0, schema.name) # {}
  /\ ExamplesDependencies(tree0) # None
  /\ schema.name \in DOMAIN ExamplesDependencies(tree0)[1]
  /\ NameReact \in DOMAIN ExamplesDependencies(tree)[1]

\* The scripts of the manifest of p.
ScriptsOf(t, p) == t.pkg[registry[p].root].scripts

FixedScriptKeys == {"docs", "build:local", "storybook", "start", "test"}

\* C11: after the manifest script rewrite of a project whose manifest has a
\* scripts map, the map has none of update-snapshots, start-test and
\* test:watch, has docs, build:local, storybook, start and test bound to the
\* fixed commands (build:local with the package name without its scope),
\* and every other script it had before, with its value.
C11_ScriptsAreRewritten ==
  \A p \in DOMAIN registry :
    "updateNpmScripts" \in Range(steps[p])
      => LET scripts == ScriptsOf(tree, p)
             before == ScriptsOf(tree0, p)
         IN /\ DOMAIN scripts
                 = ((DOMAIN before) \ {"update-snapshots", "start-test", "test:watch"})
                     \cup FixedScriptKeys
            /\ scripts["docs"]
                 = <<"api-extractor run --config=config/api-extractor.local.json --local">>
            /\ scripts["build:local"]
                 = <<"tsc && normalize-import --output dist/", p[2], "/src && yarn docs">>
            /\ scripts["storybook"] = <<"start-storybook">>
            /\ scripts["start"] = <<"yarn storybook">>
            /\ scripts["test"] = <<"jest">>
            /\ \A k \in (DOMAIN scripts) \ FixedScriptKeys : scripts[k] = before[k]

C11_Witness ==
  /\ "name" \in executed
  /\ pc = "updateApiExtractorForLocalBuilds"
  /\ run = 1
  /\ {"update-snapshots", "start-test", "build", "test"} \subseteq DOMAIN ScriptsOf(tree0, schema.name)
  /\ ScriptsOf(tree, schema.name)["build"] = <<"just-scripts build">>
  /\ "start-test" \notin DOMAIN ScriptsOf(tree, schema.name)

\* C12: when no file below the examples directory of the package carries
\* the story marker (the directory may exist and hold other files only), the
\* run logs a warning and raises no error, and the story relocation leaves
\* the tree as it was: no destination file is written, the examples
\* directory and its files stay, and the dependencies of the examples
\* manifest are not modified.
C12_NoStoriesLeavesTreeUnchanged ==
  ( /\ "name" \in executed
    /\ StoriesFound(tree0, schema.name) = {}
    /\ "removeMigratedPackageFromReactExamples" \in Range(steps[schema.name]) )
    => /\ \E i \in DOMAIN userLog : userLog[i].type = "warn"
       /\ pc # "failed"
       /\ error = ""
       /\ tree.src[registry[schema.name].root] = tree0.src[registry[schema.name].root]
       /\ tree.examples[normalizedPkgName(schema.name)]
            = tree0.examples[normalizedPkgName(schema.name)]
       /\ ExamplesDependencies(tree) = ExamplesDependencies(tree0)

\* The positions of a step in the steps run for p in this invocation.
PositionsOf(step, p) == {i \in DOMAIN steps[p] : steps[p][i] = step}

C14_NoStoryIsLost ==
  ("name" \in executed /\ "moveStorybookFromReactExamples" \in Range(steps[schema.name]))
    => LET written == tree.src[registry[schema.name].root]
           files == tree0.examples[normalizedPkgName(schema.name)].files
       IN \A treePath \in StoriesFound(tree0, schema.name) :
            LET fileName == treePath[Len(treePath)]
            IN /\ fileName \in DOMAIN written
               /\ written[fileName] = relocated(files[treePath], schema.name, fileName)

\* The parts of a file name before its part "stories".
BeforeStoriesSuffix(fileName) ==
  LET k == CHOOSE i \in DOMAIN fileName : fileName[i] = "stories" /\ \A j \in 1..(i - 1) : fileName[j] # "stories"
  IN SubSeq(fileName, 1, k - 1)

\* C15: for every file the story marker matches, whatever its extension, the
\* default export appended to the relocated content names as component the
\* file name without the .stories. suffix and the extension (Button for
\* Button.stories.tsx): the component name holds neither.
C15_ComponentNameIsStripped ==
  ("name" \in executed /\ "moveStorybookFromReactExamples" \in Range(steps[schema.name]))
    => LET written == tree.src[registry[schema.name].root]
       IN \A fileName \in DOMAIN written :
            LET exports == written[fileName].exports
            IN /\ exports # <<>>
               /\ "stories" \notin Range(exports[Len(exports)])
               /\ exports[Len(exports)] = BeforeStoriesSuffix(fileName)

\* The tags of a registry record, none when the record has no tags.
TagsOf(record) == IF record.tags = None THEN <<>> ELSE record.tags[1]

\* C16: after a successful migration of project P the registry record of P
\* has the sourceRoot <P-root>/src and a tag list with every tag it had
\* before, vNext and platform:web, each exactly once, and its other fields
\* as before; P then counts as migrated, and the record was written exactly
\* once.
C16_RegistryRecordIsTagged ==
  \A P \in DOMAIN registry :
    "updateNxWorkspace" \in Range(steps[P])
      => LET record == registry[P]
             tags == TagsOf(record)
         IN /\ record.root = registry0[P].root
            /\ record.sourceRoot = <<record.root \o <<"src">>>>
            /\ record.tags # <<>>
            /\ Range(tags) = Range(TagsOf(registry0[P])) \cup {"vNext", "platform:web"}
            /\ Len(tags) = Cardinality(Range(tags))
            /\ record.sourceRoot # <<>> /\ "vNext" \in Range(tags)
            /\ isProjectMigrated(record)
            /\ regWrites[P] = 1
            /\ \A Q \in (DOMAIN registry) \ {P} :
                 steps[Q] = <<>> => (registry[Q] = registry0[Q] /\ regWrites[Q] = 0)

C16_Witness ==
  /\ "name" \in executed
  /\ pc = "done"
  /\ run = 1
  /\ registry0[schema.name].tags = <<<<"vNext">>>>
  /\ registry0[schema.name].sourceRoot = <<>>
  /\ registry[schema.name].tags = <<<<"vNext", "platform:web">>>>
  /\ regWrites[schema.name] = 1

====
